---- MODULE Spec2Model ----
(***************************************************************************)
(* Model of fedex_route_optimizer/route_engine/route_optimizer.py          *)
(* (class RouteOptimizer): the request cache, the cache key, the provider  *)
(* wrappers, normalisation, emissions, scoring and optimize_route.         *)
(*                                                                         *)
(* Strings are modelled as sequences of tokens.  A token is either one of  *)
(* the separator characters "-" and ":" or a maximal run of characters     *)
(* that contains neither, so two token sequences are equal exactly when    *)
(* the Python strings they stand for are equal.  A coordinate is an        *)
(* integer number of 1e-4 degrees; its decimal text is the token           *)
(* ToString(magnitude), preceded by the token "-" when it is negative      *)
(* (Python prints -1.5 as "-1.5": the sign is the separator character).    *)
(***************************************************************************)
EXTENDS Integers, Sequences, FiniteSets, TLC

VARIABLES
    api_clients,    \* self.api_clients: the set of configured client names
    cache,          \* self.cache: key -> [data, timestamp]
    now,            \* time.time(), in seconds
    ticks,          \* number of clock advances so far (bounded)
    lastPut,        \* history: key -> the (data, timestamp) of the last _add_to_cache
    got,            \* the last _get_from_cache call: [key, res]
    kreqs,          \* the pair of requests whose keys are compared
    kkeys,          \* the keys _generate_cache_key produced for kreqs
    world,          \* what each provider answers when it is called now
    call,           \* the last optimize_route call, with its locals
    scoring,        \* one _score_routes call: its arguments and what it returned
    threads,        \* the optimize_route calls running concurrently, each with
                    \* its position and locals
    written,        \* history: every (key, entry) a thread stored in self.cache
    estimate,       \* one EmissionsCalculator call: its arguments and its outcome
    ui              \* the InterfaceManager: button, event queue, worker threads

\* the variables of the scoring, the concurrent, the emissions and the
\* interface specifications
aux == <<scoring, threads, written, estimate, ui>>

vars == <<api_clients, cache, now, ticks, lastPut, got, kreqs, kkeys, world, call, aux>>

(***************************************************************************)
(* Bounds                                                                  *)
(***************************************************************************)
MaxTicks == 2
MaxStops == 2
MaxRoutes == 2
MaxThreads == 3
MaxCandidates == 3
MaxClicks == 3

(***************************************************************************)
(* Values                                                                  *)
(***************************************************************************)
None == [k |-> "none"]
Some(v) == [k |-> "some", v |-> v]

Point(lat, lon) == [lat |-> lat, lon |-> lon]

\* Chennai Central Railway Station and Chennai International Airport
\* (the two entries of geocoding_map), in 1e-4 degrees.
ChennaiCentral == Point(130827, 802707)
ChennaiAirport == Point(129941, 801709)

\* haversine_distance between the two, in millimetres (14626.702... m)
HaversineCentralAirport == 14626702

\* origin=None: the coordinates are missing
MissingPoint == None

\* a pair of strings in place of the two numbers
TextPoint(a, b) == [lat_text |-> a, lon_text |-> b]

IsText(p) == DOMAIN p = {"lat_text", "lon_text"}
IsNumeric(p) == DOMAIN p = {"lat", "lon"}

\* Chennai Central with its longitude one full turn further east
\* (440.2707 degrees): the same place, out of the longitude range
WrappedCentral == Point(130827, 4402707)

\* the valid ranges of a latitude and of a longitude, in 1e-4 degrees
InRange(p) ==
    /\ IsNumeric(p)
    /\ p.lat >= -900000 /\ p.lat <= 900000
    /\ p.lon >= -1800000 /\ p.lon <= 1800000

\* stops argument: None, a list of points, or a truthy object without len()
StopsNone == [kind |-> "none", items |-> <<>>]
StopsList(s) == [kind |-> "list", items |-> s]
StopsUnsized == [kind |-> "unsized", items |-> <<>>]

Request(o, d, s, v, c, m) ==
    [origin |-> o, destination |-> d, stops |-> s, vehicle_type |-> v,
     criteria |-> c, max_alternatives |-> m]

\* no _score_routes call and no concurrent call under observation
NoScoring == [routes |-> <<>>, criteria |-> <<>>, out |-> None]
\* no EmissionsCalculator call and no interface under observation
NoEstimate == [op |-> "none", out |-> None]
NoUi == [button |-> "none"]

AuxIdle ==
    /\ scoring = NoScoring
    /\ threads = <<>>
    /\ written = {}
    /\ estimate = NoEstimate
    /\ ui = NoUi

\* "not stops": None and the empty list are falsy
StopsFalsy(stops) == stops.kind = "none" \/ (stops.kind = "list" /\ stops.items = <<>>)

(***************************************************************************)
(* _generate_cache_key                                                     *)
(***************************************************************************)
FloatStr(x) == IF x < 0 THEN <<"-", ToString(-x)>> ELSE <<ToString(x)>>

\* f"{p[0]}:{p[1]}": a string prints as itself
PointStr(p) ==
    IF IsText(p) THEN <<p.lat_text, ":", p.lon_text>>
    ELSE FloatStr(p.lat) \o <<":">> \o FloatStr(p.lon)

RECURSIVE JoinDash(_)
JoinDash(strs) ==
    IF strs = <<>> THEN <<>>
    ELSE IF Len(strs) = 1 THEN strs[1]
    ELSE strs[1] \o <<"-">> \o JoinDash(Tail(strs))

\* the stops left out of the key
StopsStr_Dropped(stops) == <<>>

StopsStr(stops) ==
    IF StopsFalsy(stops) THEN <<>>
    ELSE JoinDash([i \in 1..Len(stops.items) |-> PointStr(stops.items[i])])

_generate_cache_key(origin, destination, stops, vehicle_type, criteria) ==
    PointStr(origin) \o <<"-">> \o PointStr(destination) \o <<"-">>
        \o StopsStr(stops) \o <<"-">> \o vehicle_type \o <<"-">> \o criteria

RequestKey(r) ==
    _generate_cache_key(r.origin, r.destination, r.stops, r.vehicle_type, r.criteria)

(***************************************************************************)
(* The cache                                                               *)
(***************************************************************************)
cache_ttl == 600

\* the expiry test written with <= instead of <
_get_from_cache_NonStrict(c, key, t) ==
    IF key \in DOMAIN c /\ t - c[key].timestamp <= cache_ttl
    THEN Some(c[key].data)
    ELSE None

_get_from_cache(c, key, t) ==
    IF key \in DOMAIN c /\ t - c[key].timestamp < cache_ttl
    THEN Some(c[key].data)
    ELSE None

\* the result returned without being stored
_add_to_cache_Skipped(c, key, data, t) == c

_add_to_cache(c, key, data, t) ==
    [k \in (DOMAIN c) \cup {key} |->
        IF k = key THEN [data |-> data, timestamp |-> t] ELSE c[k]]

EmptyCache == [k \in {} |-> None]

\* history of the _add_to_cache calls: the arguments and the time of the last one
RecordPut(h, key, data, t) ==
    [k \in (DOMAIN h) \cup {key} |->
        IF k = key THEN [data |-> data, timestamp |-> t] ELSE h[k]]

\* time.time() advancing between calls
TickDeltas == {cache_ttl - 1, cache_ttl}

Tick ==
    /\ ticks < MaxTicks
    /\ \E d \in TickDeltas : now' = now + d
    /\ ticks' = ticks + 1
    /\ UNCHANGED <<aux, api_clients, cache, lastPut, got, kreqs, kkeys, world, call>>

(***************************************************************************)
(* Provider payloads.  A dictionary field is absent, present with a value  *)
(* that is not a number (None), or a number.                               *)
(***************************************************************************)
FAbsent == [k |-> "absent"]
FNone == [k |-> "none"]
Num(n) == [k |-> "num", n |-> n]

\* dict.get(key, default)
Get(v, default) == IF v.k = "absent" THEN default ELSE v

SummaryDict(l, t, d) ==
    [k |-> "dict", lengthInMeters |-> l, travelTimeInSeconds |-> t,
     trafficDelayInSeconds |-> d]
EmptyDict == SummaryDict(FAbsent, FAbsent, FAbsent)

\* what a client call does: raise, or return a response with or without routes
RespRaise == [kind |-> "raise", routes |-> <<>>]
RespNoRoutes == [kind |-> "noroutes", routes |-> <<>>]
RespRoutes(rs) == [kind |-> "routes", routes |-> rs]

\* the value of a call: returned or raised
Ret(v) == [exc |-> "", val |-> v]
Raise(msg) == [exc |-> msg, val |-> <<>>]

(***************************************************************************)
(* _get_tomtom_routes / _get_google_routes / _get_osrm_routes              *)
(* A raw TomTom route is [summary, legs]; legs is "absent", "empty" or     *)
(* "list".  A raw Google route is [legs, distance, duration,               *)
(* duration_in_traffic], the last three being legs[0].<field>.value.  A    *)
(* raw OSRM route is [distance, duration].  Geometry is not modelled.      *)
(***************************************************************************)
\* route_id is f"{prefix}-{i}", kept as the pair <<prefix, i>>
\* the route_id without the position of the route in the response
RawRoute_Unnumbered(provider, prefix, i, summary) ==
    [provider |-> provider, route_id |-> <<prefix, 0>>, summary |-> summary]

RawRoute(provider, prefix, i, summary) ==
    [provider |-> provider, route_id |-> <<prefix, i>>, summary |-> summary]

\* route.get("legs", [{}])[0] raises IndexError on an empty list
TomTomConvertRaises(route) == route.legs = "empty"

TomTomConvert(route, i) ==
    RawRoute("tomtom", "tt", i, Get(route.summary, EmptyDict))

\* the wrapper without its try/except: the client's exception propagates
_get_tomtom_routes_NoCatch(clients, resp) ==
    IF "tomtom" \notin clients THEN Ret(<<>>)
    ELSE IF resp.kind = "raise" THEN Raise("tomtom.get_route failed")
    ELSE IF resp.kind = "routes" /\ resp.routes # <<>>
    THEN IF \E i \in 1..Len(resp.routes) : TomTomConvertRaises(resp.routes[i])
         THEN Raise("list index out of range")
         ELSE Ret([i \in 1..Len(resp.routes) |-> TomTomConvert(resp.routes[i], i - 1)])
    ELSE Ret(<<>>)

_get_tomtom_routes(clients, resp) ==
    IF "tomtom" \notin clients THEN Ret(<<>>)
    ELSE IF resp.kind = "raise" THEN Ret(<<>>)
    ELSE IF resp.kind = "routes" /\ resp.routes # <<>>
    THEN IF \E i \in 1..Len(resp.routes) : TomTomConvertRaises(resp.routes[i])
         THEN Ret(<<>>)
         ELSE Ret([i \in 1..Len(resp.routes) |-> TomTomConvert(resp.routes[i], i - 1)])
    ELSE Ret(<<>>)

\* legs[0].get("distance", {}).get("value", 0) and its siblings
GoogleField(route, v) == IF route.legs = "absent" THEN Num(0) ELSE Get(v, Num(0))

\* IndexError on an empty legs list; TypeError when the delay subtraction
\* meets a value that is not a number
GoogleConvertRaises(route) ==
    \/ route.legs = "empty"
    \/ GoogleField(route, route.duration_in_traffic).k # "num"
    \/ GoogleField(route, route.duration).k # "num"

Max(a, b) == IF a >= b THEN a ELSE b
Min(a, b) == IF a <= b THEN a ELSE b

GoogleConvert(route, i) ==
    RawRoute("google", "gm", i,
        SummaryDict(GoogleField(route, route.distance),
                    GoogleField(route, route.duration),
                    Num(Max(0, GoogleField(route, route.duration_in_traffic).n
                               - GoogleField(route, route.duration).n))))

_get_google_routes(clients, resp) ==
    IF "google_maps" \notin clients THEN Ret(<<>>)
    ELSE IF resp.kind = "raise" THEN Ret(<<>>)
    ELSE IF resp.kind = "routes" /\ resp.routes # <<>>
    THEN IF \E i \in 1..Len(resp.routes) : GoogleConvertRaises(resp.routes[i])
         THEN Ret(<<>>)
         ELSE Ret([i \in 1..Len(resp.routes) |-> GoogleConvert(resp.routes[i], i - 1)])
    ELSE Ret(<<>>)

OsrmConvert(route, i) ==
    RawRoute("osrm", "osrm", i,
        SummaryDict(Get(route.distance, Num(0)), Get(route.duration, Num(0)), Num(0)))

_get_osrm_routes(clients, resp) ==
    IF "osrm" \notin clients THEN Ret(<<>>)
    ELSE IF resp.kind = "raise" THEN Ret(<<>>)
    ELSE IF resp.kind = "routes" /\ resp.routes # <<>>
    THEN Ret([i \in 1..Len(resp.routes) |-> OsrmConvert(resp.routes[i], i - 1)])
    ELSE Ret(<<>>)

(***************************************************************************)
(* _create_dummy_routes                                                    *)
(* haversine_distance is tabulated, in millimetres, for the points used.   *)
(***************************************************************************)
haversine_distance(p, q) ==
    IF p = q THEN 0
    ELSE IF {p, q} = {ChennaiCentral, ChennaiAirport} THEN HaversineCentralAirport
    ELSE IF {p, q} = {WrappedCentral, ChennaiAirport} THEN HaversineCentralAirport
    ELSE IF IsNumeric(p) /\ IsNumeric(q) /\ p.lon = q.lon
    THEN (Max(p.lat - q.lat, q.lat - p.lat) * 1111949) \div 100
    ELSE 0

\* name, distance_factor x 100, time_factor x 100
route_variants ==
    << [name |-> "Fastest Route", distance_factor |-> 100, time_factor |-> 100],
       [name |-> "Shortest Route", distance_factor |-> 95, time_factor |-> 110],
       [name |-> "Eco-Friendly Route", distance_factor |-> 105, time_factor |-> 105] >>

\* int(base_distance * distance_factor), in metres
DummyDistance(base, variant) == (base * variant.distance_factor) \div 100000

\* int((distance / 1000) * 3600 / 40 * time_factor)
DummyDuration(distance, variant) == (distance * 9 * variant.time_factor) \div 10000

_create_dummy_routes(origin, destination) ==
    LET base == haversine_distance(origin, destination)
    IN  [i \in 1..Len(route_variants) |->
            LET distance == DummyDistance(base, route_variants[i])
                duration == DummyDuration(distance, route_variants[i])
            IN  RawRoute("demo", "demo", i - 1,
                    SummaryDict(Num(distance), Num(duration),
                                Num(Max(0, duration \div 10))))]

(***************************************************************************)
(* _normalize_routes                                                       *)
(***************************************************************************)
\* route["summary"].get(...) raises AttributeError when summary is not a dict
NormalizeRaises(route) == route.summary.k # "dict"

NormalizeOne(route) ==
    [id |-> route.route_id,
     provider |-> route.provider,
     distance_meters |-> Get(route.summary.lengthInMeters, Num(0)),
     duration_seconds |-> Get(route.summary.travelTimeInSeconds, Num(0)),
     traffic_delay_seconds |-> Get(route.summary.trafficDelayInSeconds, Num(0))]

_normalize_routes(routes) ==
    IF \E i \in 1..Len(routes) : NormalizeRaises(routes[i])
    THEN Raise("'NoneType' object has no attribute 'get'")
    ELSE Ret([i \in 1..Len(routes) |-> NormalizeOne(routes[i])])

(***************************************************************************)
(* _calculate_emissions: emissions_kg_co2 is kept in hundredths of a kg    *)
(***************************************************************************)
\* kg CO2 per km, x 100
EmissionRate(vehicle_type) ==
    IF vehicle_type = <<"delivery_van">> THEN 20
    ELSE IF vehicle_type = <<"cargo_truck">> THEN 50
    ELSE IF vehicle_type = <<"electric_van">> THEN 5
    ELSE 20

\* round(n / d) to the nearest integer, ties to even (Python's round)
RoundHalfEven(n, d) ==
    LET q == n \div d
        r == n % d
    IN  IF 2 * r < d THEN q
        ELSE IF 2 * r > d THEN q + 1
        ELSE IF q % 2 = 0 THEN q ELSE q + 1

\* round(distance_meters / 1000 * rate, 2), in hundredths
EmissionsOf(distance_meters, vehicle_type) ==
    RoundHalfEven(distance_meters * EmissionRate(vehicle_type), 1000)

_calculate_emissions(routes, vehicle_type) ==
    IF \E i \in 1..Len(routes) : routes[i].distance_meters.k # "num"
    THEN Raise("unsupported operand type(s) for /: 'NoneType' and 'int'")
    ELSE Ret([i \in 1..Len(routes) |->
            [id |-> routes[i].id,
             provider |-> routes[i].provider,
             distance_meters |-> routes[i].distance_meters,
             duration_seconds |-> routes[i].duration_seconds,
             traffic_delay_seconds |-> routes[i].traffic_delay_seconds,
             emissions_kg_co2 |-> EmissionsOf(routes[i].distance_meters.n, vehicle_type)]])

(***************************************************************************)
(* _score_routes.  Weights are in tenths and the arithmetic is exact.  The  *)
(* code computes in binary floating point and truncates with int(): when   *)
(* the exact value of 100 x (weighted score) is a whole number n reached   *)
(* through a division that is not exact in floating point, the product can *)
(* come out just below n and int() then gives n - 1.  Which way it falls   *)
(* depends on the operands' binary expansions, so the positions where it   *)
(* can happen (SlipPositions) are an input of the scoring: _score_routes   *)
(* takes the set of positions where it does.  A value that is not whole is *)
(* further from the next whole number than any rounding error.             *)
(***************************************************************************)
\* the time weight of the priority "time" taken as 1.0
time_weight_Whole(criteria) ==
    IF criteria = <<"time">> THEN 10
    ELSE IF criteria = <<"emissions">> THEN 2
    ELSE 5

time_weight(criteria) ==
    IF criteria = <<"time">> THEN 8
    ELSE IF criteria = <<"emissions">> THEN 2
    ELSE 5

\* the emissions weight 0.5 whatever the priority
emissions_weight_Half(criteria) == 5

emissions_weight(criteria) ==
    IF criteria = <<"time">> THEN 2
    ELSE IF criteria = <<"emissions">> THEN 8
    ELSE 5

SeqMin(f) == CHOOSE x \in {f[i] : i \in DOMAIN f} : \A i \in DOMAIN f : x <= f[i]
SeqMax(f) == CHOOSE x \in {f[i] : i \in DOMAIN f} : \A i \in DOMAIN f : x >= f[i]

\* the time score taken as (duration - min_time) / time_range
ScoreOf_Slowest(duration, emissions, min_time, time_range, min_emissions, emissions_range, criteria) ==
    (10 * ( time_weight(criteria) * (duration - min_time) * emissions_range
          + emissions_weight(criteria) * (emissions_range - (emissions - min_emissions)) * time_range))
        \div (time_range * emissions_range)

\* int((time_weight * time_score + emissions_weight * emissions_score) * 100)
\* with time_score = 1 - (duration - min_time) / time_range and
\* emissions_score = 1 - (emissions - min_emissions) / emissions_range
ScoreOf(duration, emissions, min_time, time_range, min_emissions, emissions_range, criteria) ==
    (10 * ( time_weight(criteria) * (time_range - (duration - min_time)) * emissions_range
          + emissions_weight(criteria) * (emissions_range - (emissions - min_emissions)) * time_range))
        \div (time_range * emissions_range)

\* the exact value is whole, and one of the two normalised scores is
\* neither 0 nor 1 (x / x and 0 / x are exact)
Slippable(duration, emissions, min_time, time_range, min_emissions, emissions_range, criteria) ==
    /\ \/ (duration - min_time) \notin {0, time_range}
       \/ (emissions - min_emissions) \notin {0, emissions_range}
    /\ (10 * ( time_weight(criteria) * (time_range - (duration - min_time)) * emissions_range
             + emissions_weight(criteria) * (emissions_range - (emissions - min_emissions)) * time_range))
          % (time_range * emissions_range) = 0

\* the tiers with the boundary scores in the lower tier
recommendation_Strict(score) ==
    IF score > 80 THEN "Highly Recommended"
    ELSE IF score > 60 THEN "Recommended"
    ELSE "Alternative Option"

\* the label of a score (lines 517-523)
recommendation(score) ==
    IF score >= 80 THEN "Highly Recommended"
    ELSE IF score >= 60 THEN "Recommended"
    ELSE "Alternative Option"

\* among equal scores the last one taken first
FirstBest_Last(routes, best) ==
    CHOOSE i \in 1..Len(routes) :
        /\ routes[i].score = best
        /\ \A h \in (i + 1)..Len(routes) : routes[h].score # best

\* the position sorted() puts next: the first one with the highest score
FirstBest(routes, best) ==
    CHOOSE i \in 1..Len(routes) :
        /\ routes[i].score = best
        /\ \A h \in 1..(i - 1) : routes[h].score # best

\* sorted(routes, key=score, reverse=True): stable, descending
RECURSIVE SortByScore(_)
SortByScore(routes) ==
    IF routes = <<>> THEN <<>>
    ELSE LET best == SeqMax([i \in 1..Len(routes) |-> routes[i].score])
             j == FirstBest(routes, best)
         IN  <<routes[j]>> \o
             SortByScore([i \in 1..(Len(routes) - 1) |->
                            IF i < j THEN routes[i] ELSE routes[i + 1]])

\* slip: the positions whose floating-point score falls below its whole
\* exact value
_score_routes(routes, criteria, slip) ==
    IF routes = <<>> THEN Ret(routes)
    ELSE IF \E i \in 1..Len(routes) : routes[i].duration_seconds.k # "num"
    THEN Raise("unsupported operand type(s) for -: 'NoneType' and 'NoneType'")
    ELSE
      LET durations == [i \in 1..Len(routes) |-> routes[i].duration_seconds.n]
          emissions == [i \in 1..Len(routes) |-> routes[i].emissions_kg_co2]
          min_time == SeqMin(durations)
          time_range == Max(1, SeqMax(durations) - min_time)
          min_emissions == SeqMin(emissions)
          emissions_range == Max(10, SeqMax(emissions) - min_emissions)
          scored == [i \in 1..Len(routes) |->
              LET score == ScoreOf(durations[i], emissions[i], min_time, time_range,
                                   min_emissions, emissions_range, criteria)
                           - (IF i \in slip THEN 1 ELSE 0)
              IN [id |-> routes[i].id,
                  provider |-> routes[i].provider,
                  distance_meters |-> routes[i].distance_meters,
                  duration_seconds |-> routes[i].duration_seconds,
                  traffic_delay_seconds |-> routes[i].traffic_delay_seconds,
                  emissions_kg_co2 |-> routes[i].emissions_kg_co2,
                  score |-> score,
                  recommendation |-> recommendation(score)]]
      IN  Ret(SortByScore(scored))

\* the positions where it can fall
SlipPositions(routes, criteria) ==
    IF routes = <<>> \/ \E i \in 1..Len(routes) : routes[i].duration_seconds.k # "num"
    THEN {} ELSE
    LET durations == [i \in 1..Len(routes) |-> routes[i].duration_seconds.n]
        emissions == [i \in 1..Len(routes) |-> routes[i].emissions_kg_co2]
        min_time == SeqMin(durations)
        time_range == Max(1, SeqMax(durations) - min_time)
        min_emissions == SeqMin(emissions)
        emissions_range == Max(10, SeqMax(emissions) - min_emissions)
    IN  {i \in 1..Len(routes) :
            Slippable(durations[i], emissions[i], min_time, time_range,
                      min_emissions, emissions_range, criteria)}

\* scored_routes[:max_alternatives]
Slice(s, m) ==
    IF m >= 0 THEN SubSeq(s, 1, Min(m, Len(s)))
    ELSE SubSeq(s, 1, Max(0, Len(s) + m))

(***************************************************************************)
(* Traffic and weather                                                     *)
(* A traffic response is RespRaise or [kind |-> "ok"]; an air-quality      *)
(* response is RespRaise or [kind |-> "ok", aqi |-> n].                    *)
(***************************************************************************)
_get_traffic_data(clients, resp) ==
    IF "tomtom" \in clients
    THEN IF resp.kind = "raise" THEN [status |-> "error"] ELSE [status |-> "ok"]
    ELSE [status |-> "demo"]

\* the client's exception answered with the demo data
_get_weather_data_Masked(clients, resp) ==
    IF "aqicn" \in clients
    THEN IF resp.kind = "raise" THEN [status |-> "demo", aqi |-> 45]
         ELSE [status |-> "ok", aqi |-> resp.aqi]
    ELSE [status |-> "demo", aqi |-> 45]

_get_weather_data(clients, resp) ==
    IF "aqicn" \in clients
    THEN IF resp.kind = "raise" THEN [status |-> "error", aqi |-> 0]
         ELSE [status |-> "ok", aqi |-> resp.aqi]
    ELSE [status |-> "demo", aqi |-> 45]

_summarize_traffic(traffic_data) ==
    IF traffic_data.status = "error"
    THEN [status |-> "unknown", description |-> "Traffic data unavailable"]
    ELSE IF traffic_data.status = "demo"
    THEN [status |-> "normal", description |-> "Normal traffic conditions (demo mode)"]
    ELSE [status |-> "normal", description |-> "Normal traffic conditions"]

\* the thresholds 50 and 100 counted in the lower bucket
_summarize_weather_Inclusive(weather_data) ==
    IF weather_data.status = "error"
    THEN [status |-> "unknown", aqi |-> 0]
    ELSE IF weather_data.aqi <= 50 THEN [status |-> "good", aqi |-> weather_data.aqi]
    ELSE IF weather_data.aqi <= 100 THEN [status |-> "moderate", aqi |-> weather_data.aqi]
    ELSE [status |-> "poor", aqi |-> weather_data.aqi]

_summarize_weather(weather_data) ==
    IF weather_data.status = "error"
    THEN [status |-> "unknown", aqi |-> 0]
    ELSE IF weather_data.aqi < 50 THEN [status |-> "good", aqi |-> weather_data.aqi]
    ELSE IF weather_data.aqi < 100 THEN [status |-> "moderate", aqi |-> weather_data.aqi]
    ELSE [status |-> "poor", aqi |-> weather_data.aqi]

(***************************************************************************)
(* _get_route_area: the bounding box of all coordinates, padded by 0.05    *)
(* degrees.  min()/max() over numbers and strings, or the subtraction of   *)
(* the padding from a string, raise TypeError.                             *)
(***************************************************************************)
padding == 500

_get_route_area(origin, destination, stops) ==
    LET coords == <<origin, destination>> \o stops.items
    IN  IF \A i \in 1..Len(coords) : IsNumeric(coords[i])
        THEN Ret([min_lat |-> SeqMin([i \in 1..Len(coords) |-> coords[i].lat]) - padding,
                  min_lon |-> SeqMin([i \in 1..Len(coords) |-> coords[i].lon]) - padding,
                  max_lat |-> SeqMax([i \in 1..Len(coords) |-> coords[i].lat]) + padding,
                  max_lon |-> SeqMax([i \in 1..Len(coords) |-> coords[i].lon]) + padding])
        ELSE IF \A i \in 1..Len(coords) : IsText(coords[i])
        THEN Raise("unsupported operand type(s) for -: 'str' and 'float'")
        ELSE Raise("'<' not supported between instances of 'float' and 'str'")

(***************************************************************************)
(* optimize_route                                                          *)
(***************************************************************************)
\* the cached result never taken
CacheHit_Never(cached) == FALSE

\* "if cached_result:" - a cached result is a non-empty dict, hence truthy
CacheHit(cached) == cached.k = "some"

\* the first exception among the stages, "" when none raised
RECURSIVE FirstExc(_)
FirstExc(stages) ==
    IF stages = <<>> THEN ""
    ELSE IF stages[1].exc # "" THEN stages[1].exc
    ELSE FirstExc(Tail(stages))

\* the events up to and including the first stage that raised
RECURSIVE EventsOf(_)
EventsOf(stages) ==
    IF stages = <<>> THEN <<>>
    ELSE IF stages[1].exc # "" THEN stages[1].events
    ELSE stages[1].events \o EventsOf(Tail(stages))

Stage(r, events) == [exc |-> r.exc, events |-> events]

ErrorResult(msg, t) ==
    [status |-> "error", message |-> msg, routes |-> <<>>,
     metadata |-> [error_details |-> msg, generated_at |-> t]]

\* the error result stored like a success result
AfterError_Stored(c, key, result, t) == _add_to_cache(c, key, result, t)

\* self.cache after the except branch (lines 197-207): it returns the error
\* result without calling _add_to_cache
AfterError(c, key, result, t) == c

NoLocals ==
    [tomtom_routes |-> <<>>, gmaps_routes |-> <<>>, osrm_routes |-> <<>>,
     candidates |-> <<>>, all_routes |-> <<>>, fetched |-> FALSE]

\* The value of one optimize_route call made at time t with cache c:
\* how it ended, what it returned, the cache it left and what it did.
optimize_route(req, w, clients, c, t, slip) ==
    IF req.stops.kind = "unsized"
    THEN \* line 130, outside the try: len(stops) raises TypeError
         [outcome |-> "raised", result |-> None, cache |-> c, events |-> <<>>,
          hit |-> FALSE, locals |-> NoLocals, slippable |-> {}]
    ELSE IF req.origin = MissingPoint \/ req.destination = MissingPoint
    THEN \* _generate_cache_key: origin[0] on None raises TypeError
         [outcome |-> "returned",
          result |-> ErrorResult("'NoneType' object is not subscriptable", t),
          cache |-> c, events |-> <<>>, hit |-> FALSE, locals |-> NoLocals,
          slippable |-> {}]
    ELSE
    LET cache_key == RequestKey(req)
        cached_result == _get_from_cache(c, cache_key, t)
    IN
    IF CacheHit(cached_result)
    THEN [outcome |-> "returned", result |-> cached_result.v, cache |-> c,
          events |-> <<"cache_get">>, hit |-> TRUE, locals |-> NoLocals,
          slippable |-> {}]
    ELSE
    LET area == _get_route_area(req.origin, req.destination, req.stops)
        traffic_data == _get_traffic_data(clients, w.traffic)
        weather_data == _get_weather_data(clients, w.weather)
        tomtom == _get_tomtom_routes(clients, w.tomtom)
        gmaps == _get_google_routes(clients, w.google)
        osrm == _get_osrm_routes(clients, w.osrm)
        dummy == tomtom.val = <<>> /\ gmaps.val = <<>> /\ osrm.val = <<>>
        candidates == IF area.exc # "" THEN <<>>
                      ELSE IF dummy
                      THEN _create_dummy_routes(req.origin, req.destination)
                      ELSE tomtom.val \o gmaps.val \o osrm.val
        all_routes == _normalize_routes(candidates)
        routes_with_emissions == _calculate_emissions(all_routes.val, req.vehicle_type)
        slippable == SlipPositions(routes_with_emissions.val, req.criteria)
        scored_routes == _score_routes(routes_with_emissions.val, req.criteria,
                                       slip \cap slippable)
        final_routes == Slice(scored_routes.val, req.max_alternatives)
        stages == <<
            Stage(Ret(0), <<"cache_get">>),
            Stage(area, <<>>),
            Stage(Ret(0), IF "tomtom" \in clients THEN <<"tomtom.get_traffic_flow">> ELSE <<>>),
            Stage(Ret(0), IF "aqicn" \in clients THEN <<"aqicn.get_air_quality">> ELSE <<>>),
            Stage(tomtom, IF "tomtom" \in clients THEN <<"tomtom.get_route">> ELSE <<>>),
            Stage(gmaps, IF "google_maps" \in clients THEN <<"google_maps.get_directions">> ELSE <<>>),
            Stage(osrm, IF "osrm" \in clients THEN <<"osrm.get_route">> ELSE <<>>),
            Stage(all_routes, <<"_normalize_routes">>),
            Stage(routes_with_emissions, <<"_calculate_emissions">>),
            Stage(scored_routes, <<"_score_routes">>),
            Stage(Ret(0), <<"cache_put">>) >>
        exc == FirstExc(stages)
        result ==
            [status |-> "success",
             query |-> [origin |-> req.origin, destination |-> req.destination,
                        stops |-> req.stops, vehicle_type |-> req.vehicle_type,
                        optimization_criteria |-> req.criteria],
             routes |-> final_routes,
             metadata |-> [traffic_conditions |-> _summarize_traffic(traffic_data),
                           weather_conditions |-> _summarize_weather(weather_data),
                           route_count |-> Len(final_routes),
                           generated_at |-> t]]
        fetched == area.exc = "" /\ tomtom.exc = "" /\ gmaps.exc = "" /\ osrm.exc = ""
        locals ==
            IF area.exc # "" THEN NoLocals ELSE
            [tomtom_routes |-> tomtom.val, gmaps_routes |-> gmaps.val,
             osrm_routes |-> osrm.val,
             candidates |-> IF fetched THEN candidates ELSE <<>>,
             all_routes |-> IF fetched THEN all_routes.val ELSE <<>>,
             fetched |-> fetched]
    IN
    IF exc # ""
    THEN [outcome |-> "returned", result |-> ErrorResult(exc, t),
          cache |-> AfterError(c, cache_key, ErrorResult(exc, t), t),
          events |-> EventsOf(stages), hit |-> FALSE, locals |-> locals,
          slippable |-> {}]
    ELSE [outcome |-> "returned", result |-> result,
          cache |-> _add_to_cache(c, cache_key, result, t),
          events |-> EventsOf(stages), hit |-> FALSE, locals |-> locals,
          slippable |-> slippable]

NoCall ==
    [req |-> None, outcome |-> "none", result |-> None, events |-> <<>>,
     hit |-> FALSE, locals |-> NoLocals, at |-> 0, world |-> None, slip |-> {}]

\* One optimize_route(req) call by the caller, from entry to return; the
\* floating-point scores fall below their whole exact values at any of the
\* positions where they can.
OptimizeRoute(req) ==
    \E exact \in {optimize_route(req, world, api_clients, cache, now, {})} :
    \E slip \in SUBSET exact.slippable :
    \E r \in {IF slip = {} THEN exact
              ELSE optimize_route(req, world, api_clients, cache, now, slip)} :
        /\ call' = [req |-> req, outcome |-> r.outcome, result |-> r.result,
                    events |-> r.events, hit |-> r.hit, locals |-> r.locals,
                    at |-> now, world |-> world, slip |-> slip]
        /\ cache' = r.cache
        /\ lastPut' = IF r.events # <<>> /\ r.events[Len(r.events)] = "cache_put"
                      THEN RecordPut(lastPut, RequestKey(req), r.result, now)
                      ELSE lastPut
        /\ UNCHANGED <<aux, api_clients, now, ticks, got, kreqs, kkeys, world>>

(***************************************************************************)
(* Worlds and requests                                                     *)
(***************************************************************************)
TrafficOk == [kind |-> "ok"]
AirQuality(n) == [kind |-> "ok", aqi |-> n]

World(traffic, weather, tomtom, google, osrm) ==
    [traffic |-> traffic, weather |-> weather, tomtom |-> tomtom,
     google |-> google, osrm |-> osrm]

\* no provider answers anything (nothing is configured, nothing is asked)
SilentWorld == World(RespRaise, RespRaise, RespRaise, RespRaise, RespRaise)

DeliveryVan == <<"delivery_van">>
Balanced == <<"balanced">>

NoGot == [key |-> <<>>, res |-> None, at |-> 0]

(***************************************************************************)
(* SpecCache: _add_to_cache and _get_from_cache called directly, with the  *)
(* clock advancing in between.                                             *)
(***************************************************************************)
CacheRequests ==
    { Request(ChennaiCentral, ChennaiAirport, StopsNone, DeliveryVan, Balanced, 3),
      Request(ChennaiAirport, ChennaiCentral, StopsNone, DeliveryVan, Balanced, 3) }

CacheKeys == { RequestKey(r) : r \in CacheRequests }

CacheValues ==
    { optimize_route(r, SilentWorld, {}, EmptyCache, 0, {}).result : r \in CacheRequests }

InitCache ==
    /\ api_clients = {}
    /\ cache = EmptyCache
    /\ now = 0
    /\ ticks = 0
    /\ lastPut = EmptyCache
    /\ got = NoGot
    /\ kreqs = <<>>
    /\ kkeys = <<>>
    /\ world = SilentWorld
    /\ call = NoCall
    /\ AuxIdle

AddToCache(key, data) ==
    /\ cache' = _add_to_cache(cache, key, data, now)
    /\ lastPut' = RecordPut(lastPut, key, data, now)
    /\ UNCHANGED <<aux, api_clients, now, ticks, got, kreqs, kkeys, world, call>>

GetFromCache(key) ==
    /\ got' = [key |-> key, res |-> _get_from_cache(cache, key, now), at |-> now]
    /\ UNCHANGED <<aux, api_clients, cache, now, ticks, lastPut, kreqs, kkeys, world, call>>

NextCache ==
    \/ \E key \in CacheKeys, data \in CacheValues : AddToCache(key, data)
    \/ \E key \in CacheKeys : GetFromCache(key)
    \/ Tick

SpecCache == InitCache /\ [][NextCache]_vars

\* C2: _add_to_cache(k, v) followed by _get_from_cache(k) returns v while
\* now - timestamp < 600 and returns None from now - timestamp = 600 on
\* (strict expiry: at exactly 600 s the entry is already absent).
C2_PutThenGet ==
    [][ \A k \in CacheKeys :
          GetFromCache(k) /\ k \in DOMAIN lastPut =>
            /\ (now - lastPut[k].timestamp < 600 => got'.res = Some(lastPut[k].data))
            /\ (now - lastPut[k].timestamp >= 600 => got'.res = None) ]_vars

\* an entry looked up exactly 600 s after it was put is absent
C2_Witness ==
    /\ got.key \in DOMAIN lastPut
    /\ got.at - lastPut[got.key].timestamp = 600
    /\ got.res = None

(***************************************************************************)
(* SpecKey: _generate_cache_key applied to a pair of requests.             *)
(***************************************************************************)
\* a point of the southern and western hemispheres: both coordinates print
\* with a leading "-"
SouthWest == Point(-129941, -801709)

KeyPoints == {ChennaiCentral, SouthWest}

RECURSIVE SeqsUpTo(_, _)
SeqsUpTo(S, n) ==
    IF n = 0 THEN {<<>>}
    ELSE LET shorter == SeqsUpTo(S, n - 1)
         IN  shorter \cup {Append(s, x) : s \in shorter, x \in S}

KeyStops == {StopsNone} \cup {StopsList(s) : s \in SeqsUpTo(KeyPoints, MaxStops)}

\* vehicle_type and optimization_criteria are unvalidated strings
KeyVehicles == {DeliveryVan, <<"box">>, <<"box", "-", "truck">>}
KeyCriteria == {<<"time">>, Balanced, <<"truck", "-", "time">>}

KeyRequests ==
    { Request(o, d, s, v, c, 3) :
        o \in KeyPoints, d \in KeyPoints, s \in KeyStops,
        v \in KeyVehicles, c \in KeyCriteria }

InitKey ==
    /\ api_clients = {}
    /\ cache = EmptyCache
    /\ now = 0
    /\ ticks = 0
    /\ lastPut = EmptyCache
    /\ got = NoGot
    /\ kreqs \in KeyRequests \X KeyRequests
    /\ kkeys = <<>>
    /\ world = SilentWorld
    /\ call = NoCall
    /\ AuxIdle

GenerateKeys ==
    /\ kkeys = <<>>
    /\ kkeys' = <<RequestKey(kreqs[1]), RequestKey(kreqs[2])>>
    /\ UNCHANGED <<aux, api_clients, cache, now, ticks, lastPut, got, kreqs, world, call>>

NextKey == GenerateKeys

SpecKey == InitKey /\ [][NextKey]_vars

\* the ordered stop sequence of a request (None and [] are both "no stops")
StopItems(r) == r.stops.items

SameRequest(a, b) ==
    /\ a.origin = b.origin
    /\ a.destination = b.destination
    /\ StopItems(a) = StopItems(b)
    /\ a.vehicle_type = b.vehicle_type
    /\ a.criteria = b.criteria

Distinct(s) == \A i, j \in 1..Len(s) : i # j => s[i] # s[j]

\* b's stops are a's distinct stops in another order, all else being equal
StopsReordered(a, b) ==
    /\ a.origin = b.origin
    /\ a.destination = b.destination
    /\ a.vehicle_type = b.vehicle_type
    /\ a.criteria = b.criteria
    /\ Len(StopItems(a)) = Len(StopItems(b))
    /\ Distinct(StopItems(a))
    /\ Distinct(StopItems(b))
    /\ {StopItems(a)[i] : i \in 1..Len(StopItems(a))}
         = {StopItems(b)[i] : i \in 1..Len(StopItems(b))}
    /\ StopItems(a) # StopItems(b)

\* C3: two requests that differ in origin, destination, ordered stops,
\* vehicle type or optimization priority never get the same cache key.
C3_KeyInjective ==
    kkeys # <<>> /\ ~SameRequest(kreqs[1], kreqs[2]) => kkeys[1] # kkeys[2]

\* C4: identical requests get the same key, and requests that differ only
\* in the order of their distinct stops get different keys.
C4_KeyOrderSensitive ==
    kkeys # <<>> =>
        /\ (SameRequest(kreqs[1], kreqs[2]) => kkeys[1] = kkeys[2])
        /\ (StopsReordered(kreqs[1], kreqs[2]) => kkeys[1] # kkeys[2])

\* two requests whose stops are each other's reversal, with their keys
C4_Witness ==
    /\ kkeys # <<>>
    /\ StopsReordered(kreqs[1], kreqs[2])
    /\ kkeys[1] # kkeys[2]

(***************************************************************************)
(* Spec: one optimizer serving a sequence of optimize_route calls while    *)
(* the clock advances and the providers' answers change.                   *)
(***************************************************************************)
RoutingClients == {"tomtom", "google_maps", "osrm"}
AllClients == RoutingClients \cup {"aqicn"}

\* well-formed provider routes
TomTomRoute(l, t, d) == [summary |-> SummaryDict(Num(l), Num(t), Num(d)), legs |-> "list"]
GoogleRoute(l, t, tt) ==
    [legs |-> "list", distance |-> Num(l), duration |-> Num(t),
     duration_in_traffic |-> Num(tt)]
OsrmRoute(l, t) == [distance |-> Num(l), duration |-> Num(t)]

TomTomGood == TomTomRoute(15200, 1380, 120)
GoogleGood == GoogleRoute(14900, 1350, 1500)
OsrmGood == OsrmRoute(14100, 1420)

ClientConfigs == { {}, {"aqicn"}, AllClients }

Worlds ==
    { World(TrafficOk, AirQuality(45),
            RespRoutes(<<TomTomGood>>), RespRoutes(<<GoogleGood>>), RespRoutes(<<OsrmGood>>)),
      World(RespRaise, AirQuality(120),
            RespRaise, RespRoutes(<<GoogleGood, GoogleGood>>), RespNoRoutes) }

Requests ==
    { Request(ChennaiCentral, d, StopsNone, DeliveryVan, Balanced, m) :
        d \in {ChennaiCentral, ChennaiAirport}, m \in {1, 3} }

Init ==
    /\ api_clients \in ClientConfigs
    /\ cache = EmptyCache
    /\ now = 0
    /\ ticks = 0
    /\ lastPut = EmptyCache
    /\ got = NoGot
    /\ kreqs = <<>>
    /\ kkeys = <<>>
    /\ world \in Worlds
    /\ call = NoCall
    /\ AuxIdle

\* the providers' answers change between two calls
ProviderChange ==
    /\ \E w \in Worlds \ {world} : world' = w
    /\ UNCHANGED <<aux, api_clients, cache, now, ticks, lastPut, got, kreqs, kkeys, call>>

Next ==
    \/ \E req \in Requests : OptimizeRoute(req)
    \/ Tick
    \/ ProviderChange

Spec == Init /\ [][Next]_vars

(***************************************************************************)
(* SpecProviders: optimize_route against routing providers that raise,     *)
(* return nothing, or return routes of several payload shapes.             *)
(***************************************************************************)
\* a TomTom route without "summary" and without "legs"
TomTomBare == [summary |-> FAbsent, legs |-> "absent"]
\* a TomTom route whose "legs" is the empty list
TomTomEmptyLegs == [summary |-> SummaryDict(Num(15900), Num(1290), FAbsent), legs |-> "empty"]
\* a TomTom route whose "summary" is null
TomTomNullSummary == [summary |-> FNone, legs |-> "list"]

GoogleBare == [legs |-> "absent", distance |-> FAbsent, duration |-> FAbsent,
               duration_in_traffic |-> FAbsent]
GoogleEmptyLegs == [legs |-> "empty", distance |-> FAbsent, duration |-> FAbsent,
                    duration_in_traffic |-> FAbsent]

\* an OSRM route whose "distance" is null
OsrmNullDistance == [distance |-> FNone, duration |-> Num(1500)]

TomTomShapes == {TomTomGood, TomTomBare, TomTomEmptyLegs, TomTomNullSummary}
GoogleShapes == {GoogleGood, GoogleBare, GoogleEmptyLegs}
OsrmShapes == {OsrmGood, OsrmNullDistance}

Responses(shapes) ==
    {RespRaise, RespNoRoutes}
        \cup {RespRoutes(rs) : rs \in SeqsUpTo(shapes, MaxRoutes) \ {<<>>}}

ProviderWorlds ==
    { World(TrafficOk, AirQuality(45), tt, gm, os) :
        tt \in Responses(TomTomShapes), gm \in Responses(GoogleShapes),
        os \in Responses(OsrmShapes) }

ProviderConfigs == { AllClients, {"tomtom", "aqicn"}, {"google_maps", "osrm"} }

ProviderRequests ==
    { Request(ChennaiCentral, ChennaiAirport, StopsNone, DeliveryVan, Balanced, 1),
      Request(ChennaiCentral, ChennaiAirport, StopsNone, DeliveryVan, Balanced, 3),
      Request(ChennaiCentral, ChennaiAirport, StopsUnsized, DeliveryVan, Balanced, 3) }

InitProviders ==
    /\ api_clients \in ProviderConfigs
    /\ cache = EmptyCache
    /\ now = 0
    /\ ticks = 0
    /\ lastPut = EmptyCache
    /\ got = NoGot
    /\ kreqs = <<>>
    /\ kkeys = <<>>
    /\ world \in ProviderWorlds
    /\ call = NoCall
    /\ AuxIdle

NextProviders == \E req \in ProviderRequests : OptimizeRoute(req)

SpecProviders == InitProviders /\ [][NextProviders]_vars

(***************************************************************************)
(* Claims about optimize_route                                             *)
(***************************************************************************)
ProviderEvents ==
    {"tomtom.get_traffic_flow", "aqicn.get_air_quality", "tomtom.get_route",
     "google_maps.get_directions", "osrm.get_route"}

Returned == call.outcome = "returned"
Success == Returned /\ call.result.status = "success"

\* C1: the cache lookup precedes every provider call, and a lookup that
\* finds an unexpired entry makes the call return that entry's result with
\* no provider call, no scoring and no cache write.
C1_CacheFirst ==
    [][ \A req \in Requests :
          OptimizeRoute(req) =>
            /\ \A i \in 1..Len(call'.events) :
                 call'.events[i] \in ProviderEvents =>
                   \E j \in 1..(i - 1) : call'.events[j] = "cache_get"
            /\ LET k == RequestKey(req)
               IN  (k \in DOMAIN cache /\ now - cache[k].timestamp < 600) =>
                     /\ call'.outcome = "returned"
                     /\ call'.result = cache[k].data
                     /\ call'.events = <<"cache_get">>
                     /\ cache' = cache ]_vars

\* a call served from the cache some time after the entry was written,
\* with every provider configured
C1_Witness ==
    /\ Returned
    /\ call.hit
    /\ call.events = <<"cache_get">>
    /\ api_clients = AllClients
    /\ call.at > call.result.metadata.generated_at

\* C5: every success result returned for max_alternatives = m has at most
\* m routes, also when it is served from the cache.
C5_AtMostMaxAlternatives ==
    Success => Len(call.result.routes) <= call.req.max_alternatives

DemoIds == {<<"demo", 0>>, <<"demo", 1>>, <<"demo", 2>>}

\* C7: with no routing provider configured, a call with max_alternatives = 3
\* returns success with exactly the three dummy routes.
C7_ThreeDummyRoutes ==
    (call.outcome # "none" /\ api_clients \cap RoutingClients = {}
        /\ call.req.max_alternatives = 3) =>
        /\ Success
        /\ Len(call.result.routes) = 3
        /\ {call.result.routes[i].id : i \in 1..3} = DemoIds

\* C6: whatever the routing providers do, a call with valid coordinates and
\* max_alternatives >= 1 returns a success result with at least one route.
C6_NeverZeroRoutes ==
    (call.outcome # "none" /\ call.req.stops.kind # "unsized"
        /\ call.req.max_alternatives >= 1) =>
        /\ Success
        /\ Len(call.result.routes) >= 1

\* the response the world of the last call gave to a routing client, the
\* prefix of that client's route ids, and its shape of a well-formed route
ResponseOf(client) ==
    IF client = "tomtom" THEN call.world.tomtom
    ELSE IF client = "google_maps" THEN call.world.google
    ELSE call.world.osrm

IdPrefix(client) ==
    IF client = "tomtom" THEN "tt" ELSE IF client = "google_maps" THEN "gm" ELSE "osrm"

\* the client call raised, or the conversion of its response did
ProviderRaised(client) ==
    \/ ResponseOf(client).kind = "raise"
    \/ /\ client = "tomtom"
       /\ \E i \in 1..Len(ResponseOf(client).routes) :
            ResponseOf(client).routes[i].legs = "empty"
    \/ /\ client = "google_maps"
       /\ \E i \in 1..Len(ResponseOf(client).routes) :
            ResponseOf(client).routes[i].legs = "empty"

Computed == Returned /\ ~call.hit

\* C8: when a routing provider call raises, the exception does not leave
\* the fetch, and every route the other providers returned is in the
\* candidate set handed to normalisation.
C8_ProviderIsolation ==
    (Computed /\ \E p \in RoutingClients \cap api_clients : ProviderRaised(p)) =>
        /\ call.locals.fetched
        /\ \A q \in RoutingClients \cap api_clients :
             ~ProviderRaised(q) =>
               \A i \in 1..Len(ResponseOf(q).routes) :
                 \E j \in 1..Len(call.locals.candidates) :
                   call.locals.candidates[j].route_id = <<IdPrefix(q), i - 1>>

\* TomTom raised, Google and OSRM returned routes, and all of them are
\* candidates of a success result
C8_Witness ==
    /\ Computed
    /\ api_clients = AllClients
    /\ call.world.tomtom.kind = "raise"
    /\ call.world.google.kind = "routes"
    /\ call.world.osrm.kind = "routes"
    /\ ~ProviderRaised("google_maps")
    /\ Len(call.locals.candidates)
         = Len(call.world.google.routes) + Len(call.world.osrm.routes)
    /\ call.result.status = "success"

WellFormed(route) == route \in {TomTomGood, GoogleGood}

\* fields missing or empty: no summary, no legs, an empty legs list
MissingOrEmpty(route) == route \in {TomTomBare, TomTomEmptyLegs, GoogleBare, GoogleEmptyLegs}

\* C9: a response with a well-formed route and a route with missing or
\* empty fields keeps all its well-formed routes in the normalized output.
C9_SiblingsKept ==
    Computed =>
      \A p \in {"tomtom", "google_maps"} \cap api_clients :
        LET routes == ResponseOf(p).routes
        IN  (/\ \A i \in 1..Len(routes) : WellFormed(routes[i]) \/ MissingOrEmpty(routes[i])
             /\ \E i \in 1..Len(routes) : WellFormed(routes[i])
             /\ \E i \in 1..Len(routes) : MissingOrEmpty(routes[i])
             /\ \A i \in 1..Len(call.world.tomtom.routes) :
                  call.world.tomtom.routes[i] # TomTomNullSummary) =>
            \A i \in 1..Len(routes) :
              WellFormed(routes[i]) =>
                \E j \in 1..Len(call.locals.all_routes) :
                  call.locals.all_routes[j].id = <<IdPrefix(p), i - 1>>

\* C10: every call returns a result whose status is success or error; an
\* error result carries the message and no route; nothing is raised.
C10_Total ==
    call.outcome # "none" =>
        /\ call.outcome = "returned"
        /\ call.result.status \in {"success", "error"}
        /\ call.result.status = "error" =>
             call.result.routes = <<>> /\ call.result.message # ""

\* C23: the routes of one result have pairwise different ids, whichever
\* providers or demo routes they come from.
C23_DistinctIds ==
    call.outcome = "returned" =>
        \A i, j \in 1..Len(call.result.routes) :
            i # j => call.result.routes[i].id # call.result.routes[j].id

\* a computed result with two routes of one provider, and a third route of
\* another provider that has the same position in its response as one of
\* the two
C23_Witness ==
    /\ call.outcome = "returned"
    /\ ~call.hit
    /\ Len(call.result.routes) = 3
    /\ \E i, j, h \in 1..3 :
         /\ call.result.routes[i].id[1] = call.result.routes[j].id[1]
         /\ call.result.routes[i].id[2] # call.result.routes[j].id[2]
         /\ call.result.routes[h].id[1] # call.result.routes[i].id[1]
         /\ call.result.routes[h].id[2] = call.result.routes[i].id[2]

(***************************************************************************)
(* SpecRequests: optimize_route called with well-formed and with malformed *)
(* requests.                                                               *)
(***************************************************************************)
\* vehicle_type="": a string without any token
EmptyVehicle == <<>>

GoodWorld ==
    World(TrafficOk, AirQuality(45),
          RespRoutes(<<TomTomGood>>), RespRoutes(<<GoogleGood>>), RespRoutes(<<OsrmGood>>))

ValidRequest == Request(ChennaiCentral, ChennaiAirport, StopsNone, DeliveryVan, Balanced, 3)

\* the valid request, and requests with a missing, a non-numeric or an
\* out-of-range coordinate or with an empty vehicle type
AnyRequests ==
    { ValidRequest,
      Request(MissingPoint, ChennaiAirport, StopsNone, DeliveryVan, Balanced, 3),
      Request(ChennaiCentral, MissingPoint, StopsNone, DeliveryVan, Balanced, 3),
      Request(TextPoint("north", "east"), ChennaiAirport, StopsNone, DeliveryVan, Balanced, 3),
      Request(TextPoint("north", "east"), TextPoint("south", "west"), StopsNone,
              DeliveryVan, Balanced, 3),
      Request(WrappedCentral, ChennaiAirport, StopsNone, DeliveryVan, Balanced, 3),
      Request(ChennaiCentral, ChennaiAirport, StopsNone, EmptyVehicle, Balanced, 3) }

InitRequests ==
    /\ api_clients \in { {}, AllClients }
    /\ cache = EmptyCache
    /\ now = 0
    /\ ticks = 0
    /\ lastPut = EmptyCache
    /\ got = NoGot
    /\ kreqs = <<>>
    /\ kkeys = <<>>
    /\ world = GoodWorld
    /\ call = NoCall
    /\ AuxIdle

NextRequests == \E req \in AnyRequests : OptimizeRoute(req)

SpecRequests == InitRequests /\ [][NextRequests]_vars

\* coordinates that are missing, not numbers, or out of range
MalformedPoint(p) == ~InRange(p)

Malformed(req) ==
    \/ MalformedPoint(req.origin)
    \/ MalformedPoint(req.destination)
    \/ req.vehicle_type = EmptyVehicle

\* C11: a request with malformed coordinates (missing, not numbers, or out
\* of the latitude/longitude ranges) or with an empty vehicle type gets an
\* error result with a message, never a success result.
C11_MalformedIsError ==
    (call.outcome # "none" /\ Malformed(call.req)) =>
        /\ call.outcome = "returned"
        /\ call.result.status = "error"
        /\ call.result.message # ""

(***************************************************************************)
(* SpecContext: optimize_route with the traffic and the air-quality        *)
(* lookups healthy, raising, or without their client.                      *)
(***************************************************************************)
InitContext ==
    /\ api_clients \in { AllClients, RoutingClients, {"google_maps", "osrm", "aqicn"}, {} }
    /\ cache = EmptyCache
    /\ now = 0
    /\ ticks = 0
    /\ lastPut = EmptyCache
    /\ got = NoGot
    /\ kreqs = <<>>
    /\ kkeys = <<>>
    /\ world \in
         { World(traffic, weather, RespRoutes(<<TomTomGood>>), RespRoutes(<<GoogleGood>>),
                 RespRoutes(<<OsrmGood>>)) :
             traffic \in {TrafficOk, RespRaise},
             weather \in {AirQuality(45), AirQuality(49), AirQuality(50), AirQuality(99),
                          AirQuality(100), AirQuality(120), RespRaise} }
    /\ call = NoCall
    /\ AuxIdle

NextContext ==
    \E req \in { ValidRequest,
                 Request(ChennaiCentral, ChennaiAirport, StopsNone, DeliveryVan, Balanced, 1) } :
        OptimizeRoute(req)

SpecContext == InitContext /\ [][NextContext]_vars

TrafficAbsent == "tomtom" \notin api_clients
TrafficRaises == "tomtom" \in api_clients /\ call.world.traffic.kind = "raise"
WeatherAbsent == "aqicn" \notin api_clients
WeatherRaises == "aqicn" \in api_clients /\ call.world.weather.kind = "raise"

\* the routes the same call returns when both lookups answer
RoutesWithHealthyLookups ==
    optimize_route(call.req,
                   [call.world EXCEPT !.traffic = TrafficOk, !.weather = AirQuality(45)],
                   api_clients, EmptyCache, call.at, call.slip).result.routes

TrafficStatus == call.result.metadata.traffic_conditions.status
WeatherStatus == call.result.metadata.weather_conditions.status

\* the summaries of the lookups that answered
HealthySummaries ==
    /\ (~TrafficAbsent /\ ~TrafficRaises) => TrafficStatus = "normal"
    /\ (~WeatherAbsent /\ ~WeatherRaises) =>
         /\ call.result.metadata.weather_conditions.aqi = call.world.weather.aqi
         /\ WeatherStatus = (IF call.world.weather.aqi < 50 THEN "good"
                              ELSE IF call.world.weather.aqi < 100 THEN "moderate"
                              ELSE "poor")

C24_Buckets ==
    (Computed /\ ~WeatherAbsent /\ ~WeatherRaises) =>
        /\ call.result.metadata.weather_conditions.aqi = call.world.weather.aqi
        /\ call.world.weather.aqi < 50 => WeatherStatus = "good"
        /\ (call.world.weather.aqi >= 50 /\ call.world.weather.aqi < 100)
              => WeatherStatus = "moderate"
        /\ call.world.weather.aqi >= 100 => WeatherStatus = "poor"

\* the lookup answered the index 50 and the summary says "moderate"
C24_Witness ==
    /\ Computed
    /\ ~WeatherAbsent /\ ~WeatherRaises
    /\ call.world.weather.aqi = 50
    /\ call.result.metadata.weather_conditions = [status |-> "moderate", aqi |-> 50]

(***************************************************************************)
(* SpecExpiry: one request repeated while the clock advances past the TTL  *)
(* and the providers' answers change, with and without clients; a request  *)
(* without origin and a TomTom route whose "summary" is null give the      *)
(* calls that end in an error result.                                      *)
(***************************************************************************)
\* all providers answer well-formed routes, or TomTom's has a null summary
ExpiryWorlds ==
    { GoodWorld,
      World(TrafficOk, AirQuality(45), RespRoutes(<<TomTomNullSummary>>),
            RespRoutes(<<GoogleGood>>), RespRoutes(<<OsrmGood>>)) }

\* the valid request, and a request without origin
ExpiryRequests ==
    { ValidRequest,
      Request(MissingPoint, ChennaiAirport, StopsNone, DeliveryVan, Balanced, 3) }

InitExpiry ==
    /\ api_clients \in { {}, AllClients }
    /\ cache = EmptyCache
    /\ now = 0
    /\ ticks = 0
    /\ lastPut = EmptyCache
    /\ got = NoGot
    /\ kreqs = <<>>
    /\ kkeys = <<>>
    /\ world \in ExpiryWorlds
    /\ call = NoCall
    /\ AuxIdle

\* the providers' answers change between two calls
AnswersChange ==
    /\ \E w \in ExpiryWorlds \ {world} : world' = w
    /\ UNCHANGED <<aux, api_clients, cache, now, ticks, lastPut, got, kreqs, kkeys, call>>

NextExpiry ==
    \/ \E req \in ExpiryRequests : OptimizeRoute(req)
    \/ Tick
    \/ AnswersChange

SpecExpiry == InitExpiry /\ [][NextExpiry]_vars

\* C13: two consecutive calls with the same request, less than ttl apart
\* and with the same provider answers, return identical results (routes,
\* scores, order, metadata and generation timestamp).
C13_Idempotent ==
    [][ \A req \in ExpiryRequests :
          (/\ OptimizeRoute(req)
           /\ call.outcome = "returned"
           /\ call.req = req
           /\ call.world = world
           /\ now - call.at < 600) =>
            call'.result = call.result ]_vars

\* C13 amended: a call with the same request as the previous call, made
\* less than ttl after the generation timestamp of the success result that
\* call returned, returns the identical result.
C13_IdempotentAmended ==
    [][ \A req \in ExpiryRequests :
          (/\ OptimizeRoute(req)
           /\ call.outcome = "returned"
           /\ call.req = req
           /\ call.result.status = "success"
           /\ now - call.result.metadata.generated_at < 600) =>
            call'.result = call.result ]_vars

\* a result computed from all providers and returned unchanged 599 s later
C13_Witness ==
    /\ Success
    /\ call.hit
    /\ api_clients = AllClients
    /\ call.at - call.result.metadata.generated_at = 599
    /\ Len(call.result.routes) = 3

\* C14: a call that finds the entry of its request expired fetches again
\* and overwrites the entry with its new result and the current time, so
\* that a lookup within the new TTL window gives the new result and not the
\* expired one.
C14_ExpiredOverwritten ==
    [][ \A req \in ExpiryRequests :
          LET k == RequestKey(req)
          IN  (/\ OptimizeRoute(req)
               /\ req.origin # MissingPoint
               /\ k \in DOMAIN cache
               /\ now - cache[k].timestamp >= 600) =>
                /\ ~call'.hit
                /\ Len(call'.events) > 1
                /\ call'.result # cache[k].data
                /\ cache'[k] = [data |-> call'.result, timestamp |-> now]
                /\ _get_from_cache(cache', k, now + 599) = Some(call'.result) ]_vars

\* C15: a call that builds a success result, from provider routes or from
\* the dummy routes, leaves it in the cache under the request key with the
\* current time, and the same request issued right after it is a cache hit
\* returning that result.
C15_SuccessStored ==
    [][ \A req \in ExpiryRequests :
          (/\ OptimizeRoute(req)
           /\ ~call'.hit
           /\ call'.result.status = "success") =>
            LET k == RequestKey(req)
                again == optimize_route(req, world, api_clients, cache', now, {})
            IN  /\ k \in DOMAIN cache'
                /\ cache'[k] = [data |-> call'.result, timestamp |-> now]
                /\ again.hit
                /\ again.result = call'.result ]_vars

\* a success result built from the three dummy routes is the cache entry
\* of its request, replacing an earlier entry
C15_Witness ==
    /\ Computed
    /\ call.result.status = "success"
    /\ api_clients = {}
    /\ {call.result.routes[i].id : i \in 1..Len(call.result.routes)} = DemoIds
    /\ call.at >= 600
    /\ cache[RequestKey(call.req)] = [data |-> call.result, timestamp |-> call.at]

\* C30: a call that returns an error result leaves the cache as it was,
\* every cache entry holds a success result, and a call repeating a request
\* that has just got an error result computes again.
C30_ErrorsNotCached ==
    /\ [](\A k \in DOMAIN cache : cache[k].data.status = "success")
    /\ [][ \A req \in ExpiryRequests :
             OptimizeRoute(req) =>
               /\ call'.result.status = "error" => (cache' = cache /\ ~call'.hit)
               /\ (call.outcome = "returned" /\ call.req = req
                     /\ call.result.status = "error") => ~call'.hit ]_vars

\* a call has returned an error result while the cache holds an expired
\* success result of the same request, which is still there
C30_Witness ==
    /\ call.outcome = "returned"
    /\ call.req = ValidRequest
    /\ call.result.status = "error"
    /\ RequestKey(call.req) \in DOMAIN cache
    /\ cache[RequestKey(call.req)].data.status = "success"
    /\ call.at - cache[RequestKey(call.req)].timestamp >= cache_ttl

(***************************************************************************)
(* SpecDummy: one optimize_route call with the priority time on a          *)
(* RouteOptimizer without any client, so that the routes are the three     *)
(* demo routes.  Origin and destination lie on one meridian, from 0 m to   *)
(* 20 km apart; the distances are ones where no product of the demo        *)
(* arithmetic lies within a rounding error of a whole or a half number.    *)
(***************************************************************************)
DummyRequests ==
    { Request(Point(130000, 800000), Point(130000 + k, 800000), StopsNone, v, <<"time">>, m) :
        k \in {0, 2, 8, 20, 44, 180, 450, 900, 1800},
        v \in {DeliveryVan, <<"cargo_truck">>, <<"electric_van">>, <<"bike">>},
        m \in {1, 2, 3} }

InitDummy ==
    /\ api_clients = {}
    /\ cache = EmptyCache
    /\ now = 0
    /\ ticks = 0
    /\ lastPut = EmptyCache
    /\ got = NoGot
    /\ kreqs = <<>>
    /\ kkeys = <<>>
    /\ world = SilentWorld
    /\ call = NoCall
    /\ AuxIdle

NextDummy ==
    /\ call = NoCall
    /\ \E req \in DummyRequests : OptimizeRoute(req)

SpecDummy == InitDummy /\ [][NextDummy]_vars

\* the durations of the three demo routes of the request of the call
DummyDurations ==
    LET routes == _create_dummy_routes(call.req.origin, call.req.destination)
    IN  [i \in 1..Len(routes) |-> routes[i].summary.travelTimeInSeconds.n]

\* C22: without routing providers and with the priority time, the first
\* route returned has the lowest duration of the three demo routes.
C22_FastestFirst ==
    (call.outcome = "returned" /\ api_clients = {} /\ call.req.criteria = <<"time">>) =>
        /\ call.result.status = "success"
        /\ call.result.routes[1].duration_seconds.n = SeqMin(DummyDurations)

\* the three demo routes have three different durations, the shortest
\* route has the lowest emissions, and the fastest one is returned first
C22_Witness ==
    /\ call.outcome = "returned"
    /\ api_clients = {}
    /\ call.req.criteria = <<"time">>
    /\ Len(call.result.routes) = 3
    /\ call.result.routes[1].id = <<"demo", 0>>
    /\ call.result.routes[2].id = <<"demo", 1>>
    /\ call.result.routes[1].duration_seconds.n < call.result.routes[2].duration_seconds.n
    /\ call.result.routes[2].duration_seconds.n < call.result.routes[3].duration_seconds.n
    /\ call.result.routes[2].emissions_kg_co2 < call.result.routes[1].emissions_kg_co2
    /\ call.result.routes[1].score < 100

(***************************************************************************)
(* EmissionsCalculator (emissions/emissions_calculator.py).  An argument   *)
(* is a number Num(n), None, a string or a list.  distance_miles is in     *)
(* miles, avg_speed_mph in mph, gradient in percent, payload_kg in kg and  *)
(* traffic_congestion in tenths.  A quantity of CO2 is a whole number of   *)
(* units of 2e-21 kg (so that no factor of the product is rounded),        *)
(* written in base 10000 with the lowest digit first.                      *)
(***************************************************************************)
Str(s) == [k |-> "str", s |-> s]
AList == [k |-> "list"]

\* x * m + carry, for 0 < m < 200000
RECURSIVE BigTimes(_, _, _)
BigTimes(x, m, carry) ==
    IF x = <<>>
    THEN IF carry = 0 THEN <<>> ELSE <<carry % 10000>> \o BigTimes(<<>>, m, carry \div 10000)
    ELSE LET t == Head(x) * m + carry
         IN  <<t % 10000>> \o BigTimes(Tail(x), m, t \div 10000)

\* a small number n, 0 <= n < 10000
Big(n) == IF n = 0 THEN <<>> ELSE <<n>>

\* every product one unit too high
Times_Carry(x, m) == BigTimes(x, m, 1)

Times(x, m) == IF m = 0 THEN <<>> ELSE BigTimes(x, m, 0)

\* the default factors (lines 31-52): base_emission_rate in g CO2 per km,
\* payload_factor in thousandths
emission_factors ==
    [v \in {"Delivery Van", "Box Truck", "Semi-Truck", "Electric Vehicle"} |->
        IF v = "Delivery Van" THEN [base_emission_rate |-> 275, payload_factor |-> 50]
        ELSE IF v = "Box Truck" THEN [base_emission_rate |-> 450, payload_factor |-> 80]
        ELSE IF v = "Semi-Truck" THEN [base_emission_rate |-> 900, payload_factor |-> 100]
        ELSE [base_emission_rate |-> 50, payload_factor |-> 30]]

\* str.lower() of the weather names
Lower(s) == IF s = "Rain" THEN "rain" ELSE IF s = "SNOW" THEN "snow" ELSE s

\* the fallback with a minimum of one mile
FallbackEstimate_Minimum(distance_miles) ==
    IF distance_miles.k # "num"
    THEN Raise("unsupported operand type(s) for *: 'NoneType' and 'float'")
    ELSE Ret(<<0, 0, 0, 0, 0>> \o BigTimes(Big(Max(1, distance_miles.n)), 2, 0))

\* "except: return distance_miles * 0.4" (lines 129-132): 0.4 kg is 2e20
\* units; the product raises TypeError for a distance that is no number
FallbackEstimate(distance_miles) ==
    IF distance_miles.k # "num"
    THEN Raise("unsupported operand type(s) for *: 'NoneType' and 'float'")
    ELSE Ret(IF distance_miles.n = 0 THEN <<>>
             ELSE <<0, 0, 0, 0, 0>> \o BigTimes(Big(distance_miles.n), 2, 0))

calculate_emissions(distance_miles, vehicle_type, avg_speed_mph, gradient, payload_kg, traffic_congestion, weather_conditions) ==
    IF \/ vehicle_type.k = "list"           \* "not in" a dict: unhashable type
       \/ distance_miles.k # "num"
       \/ avg_speed_mph.k # "num"
       \/ gradient.k # "num"
       \/ payload_kg.k # "num"
       \/ traffic_congestion.k # "num"
       \/ weather_conditions.k # "str"       \* no attribute 'lower'
    THEN FallbackEstimate(distance_miles)
    ELSE
      LET vehicle_factors ==
              IF vehicle_type.k = "str" /\ vehicle_type.s \in DOMAIN emission_factors
              THEN emission_factors[vehicle_type.s]
              ELSE emission_factors["Delivery Van"]
          \* distance_km * base_emission_rate, x 1e5
          base_emissions ==
              Times(Times(Big(distance_miles.n), 160934), vehicle_factors.base_emission_rate)
          \* x 100
          speed_factor == IF avg_speed_mph.n < 30 THEN 120
                          ELSE IF avg_speed_mph.n > 75 THEN 115
                          ELSE 100
          \* 1.0 + abs(gradient) * 0.02, x 50
          gradient_factor == 50 + Max(gradient.n, -gradient.n)
          \* 1.0 + payload_kg / 100 * payload_factor, x 1e5
          payload_factor == 100000 + payload_kg.n * vehicle_factors.payload_factor
          \* 1.0 + traffic_congestion * 0.3, x 100
          traffic_factor == 100 + 3 * traffic_congestion.n
          \* x 100
          weather_factor == IF Lower(weather_conditions.s) = "rain" THEN 105
                            ELSE IF Lower(weather_conditions.s) = "snow" THEN 110
                            ELSE IF Lower(weather_conditions.s) = "strong wind" THEN 108
                            ELSE 100
      IN  Ret(Times(Times(Times(Times(Times(base_emissions, speed_factor), gradient_factor),
                                payload_factor), traffic_factor), weather_factor))

\* a route of compare_route_emissions: "distance" and four optional keys
EmissionsRoute(distance, avg_speed, gradient, traffic_congestion, weather_conditions) ==
    [distance |-> distance, avg_speed |-> avg_speed, gradient |-> gradient,
     traffic_congestion |-> traffic_congestion, weather_conditions |-> weather_conditions]

\* the call of lines 166-173: six positional arguments, so that the fifth
\* (the route's traffic_congestion, in tenths) is received as payload_kg (in
\* kg), the sixth (the route's weather_conditions) as traffic_congestion,
\* and weather_conditions keeps its default "normal"
compare_route_emissions(routes, vehicle_type) ==
    LET emissions ==
            [i \in 1..Len(routes) |->
                calculate_emissions(routes[i].distance,
                                    vehicle_type,
                                    Get(routes[i].avg_speed, Num(55)),
                                    Get(routes[i].gradient, Num(0)),
                                    LET c == Get(routes[i].traffic_congestion, Num(0))
                                    IN  IF c.k = "num" THEN Num(c.n \div 10) ELSE c,
                                    Get(routes[i].weather_conditions, Str("normal")),
                                    Str("normal"))]
    IN  IF \E i \in 1..Len(routes) : emissions[i].exc # ""
        THEN Raise("unsupported operand type(s) for *: 'NoneType' and 'float'")
        ELSE Ret([i \in 1..Len(routes) |-> [route |-> routes[i], emissions |-> emissions[i].val]])

(***************************************************************************)
(* SpecEmissions: one calculate_emissions or one compare_route_emissions   *)
(* call of an EmissionsCalculator with the default factors.                *)
(***************************************************************************)
InitEmissions ==
    /\ api_clients = {}
    /\ cache = EmptyCache
    /\ now = 0
    /\ ticks = 0
    /\ lastPut = EmptyCache
    /\ got = NoGot
    /\ kreqs = <<>>
    /\ kkeys = <<>>
    /\ world = SilentWorld
    /\ call = NoCall
    /\ scoring = NoScoring
    /\ threads = <<>>
    /\ written = {}
    /\ \/ \E distance_miles \in {Num(0), Num(5), Num(10), FNone},
             vehicle_type \in {Str("Delivery Van"), Str("Semi-Truck"), Str("Electric Vehicle"),
                               Str("Bike"), AList},
             avg_speed_mph \in {Num(20), Num(30), Num(75), Num(80), FNone},
             gradient \in {Num(-3), Num(0), FNone},
             payload_kg \in {Num(0), Num(250), FNone},
             traffic_congestion \in {Num(0), Num(5), Str("normal")},
             weather_conditions \in {Str("normal"), Str("Rain"), Str("snow"),
                                     Str("strong wind"), FNone} :
            estimate = [op |-> "calculate",
                        args |-> <<distance_miles, vehicle_type, avg_speed_mph, gradient,
                                   payload_kg, traffic_congestion, weather_conditions>>,
                        out |-> None]
       \/ \E routes \in SeqsUpTo({EmissionsRoute(d, v, FAbsent, c, w) :
                                     d \in {Num(10), Num(20), FNone},
                                     v \in {FAbsent, Num(20)},
                                     c \in {FAbsent, Num(10)},
                                     w \in {FAbsent, Str("rain")}}, MaxRoutes) \ {<<>>},
             vehicle_type \in {Str("Delivery Van"), Str("Semi-Truck"), Str("Electric Vehicle")} :
            estimate = [op |-> "compare", args |-> <<routes, vehicle_type>>, out |-> None]
    /\ ui = NoUi

CalculateEmissions ==
    /\ estimate.op = "calculate"
    /\ estimate.out = None
    /\ estimate' = [estimate EXCEPT !.out =
                      Some(calculate_emissions(estimate.args[1], estimate.args[2],
                                               estimate.args[3], estimate.args[4],
                                               estimate.args[5], estimate.args[6],
                                               estimate.args[7]))]
    /\ UNCHANGED <<api_clients, cache, now, ticks, lastPut, got, kreqs, kkeys, world, call,
                   scoring, threads, written, ui>>

CompareRouteEmissions ==
    /\ estimate.op = "compare"
    /\ estimate.out = None
    /\ estimate' = [estimate EXCEPT !.out =
                      Some(compare_route_emissions(estimate.args[1], estimate.args[2]))]
    /\ UNCHANGED <<api_clients, cache, now, ticks, lastPut, got, kreqs, kkeys, world, call,
                   scoring, threads, written, ui>>

NextEmissions == CalculateEmissions \/ CompareRouteEmissions

SpecEmissions == InitEmissions /\ [][NextEmissions]_vars

Calculated == estimate.op = "calculate" /\ estimate.out # None
Compared == estimate.op = "compare" /\ estimate.out # None

\* an argument other than the distance makes the lookup or the arithmetic
\* of calculate_emissions raise
ArgumentRaises ==
    \/ estimate.args[2].k = "list"
    \/ \E i \in 3..6 : estimate.args[i].k # "num"
    \/ estimate.args[7].k # "str"

\* C25: calculate_emissions raises nothing; when the lookup or the
\* arithmetic raises it returns distance_miles x 0.4 kg, and with an unknown
\* vehicle type alone it returns what it returns for "Delivery Van".
C25_Degrades ==
    Calculated =>
        /\ estimate.out.v.exc = ""
        /\ (estimate.args[1].k = "num" /\ ArgumentRaises) =>
              estimate.out.v.val
                = (IF estimate.args[1].n = 0 THEN <<>>
                   ELSE <<0, 0, 0, 0, 0>> \o BigTimes(<<estimate.args[1].n>>, 2, 0))
        /\ (estimate.args[1].k = "num" /\ ~ArgumentRaises) =>
              estimate.out.v
                = calculate_emissions(estimate.args[1],
                      IF estimate.args[2].s \in DOMAIN emission_factors
                      THEN estimate.args[2] ELSE Str("Delivery Van"),
                      estimate.args[3], estimate.args[4], estimate.args[5],
                      estimate.args[6], estimate.args[7])

\* C26: for the distance 0 calculate_emissions returns 0 kg, for every
\* vehicle type and context, computed or fallen back.
C26_ZeroDistance ==
    (Calculated /\ estimate.args[1] = Num(0)) => estimate.out.v = Ret(<<>>)

\* 0 miles with an unknown vehicle type at 20 mph, gradient -3, 250 kg,
\* congestion 0.5 in rain: computed, 0 kg
C26_Witness ==
    /\ Calculated
    /\ estimate.args = <<Num(0), Str("Bike"), Num(20), Num(-3), Num(250), Num(5), Str("Rain")>>
    /\ ~ArgumentRaises
    /\ estimate.out.v = Ret(<<>>)

\* C27: with the other arguments fixed, calculate_emissions of twice the
\* distance is twice calculate_emissions of the distance.
C27_Linear ==
    (Calculated /\ estimate.args[1].k = "num") =>
        /\ estimate.out.v.exc = ""
        /\ calculate_emissions(Num(2 * estimate.args[1].n), estimate.args[2],
                               estimate.args[3], estimate.args[4], estimate.args[5],
                               estimate.args[6], estimate.args[7])
             = Ret(BigTimes(estimate.out.v.val, 2, 0))

\* 5 miles by semi-truck at 20 mph, gradient -3, 250 kg, congestion 0.5 in
\* rain: 13.90415444775 kg (6952077223875000000000 units), every factor
\* other than 1
C27_Witness ==
    /\ Calculated
    /\ estimate.args
         = <<Num(5), Str("Semi-Truck"), Num(20), Num(-3), Num(250), Num(5), Str("Rain")>>
    /\ estimate.out.v = Ret(<<0, 0, 8750, 7223, 5207, 69>>)

\* C28: compare_route_emissions gives each route the emissions that
\* calculate_emissions returns for the route's distance, average speed,
\* gradient, traffic congestion and weather conditions and the vehicle
\* type.
C28_RouteEmissions ==
    (Compared /\ \A i \in 1..Len(estimate.args[1]) : estimate.args[1][i].distance.k = "num") =>
        /\ estimate.out.v.exc = ""
        /\ \A i \in 1..Len(estimate.args[1]) :
             estimate.out.v.val[i].emissions
               = calculate_emissions(estimate.args[1][i].distance,
                                     estimate.args[2],
                                     Get(estimate.args[1][i].avg_speed, Num(55)),
                                     Get(estimate.args[1][i].gradient, Num(0)),
                                     Num(0),
                                     Get(estimate.args[1][i].traffic_congestion, Num(0)),
                                     Get(estimate.args[1][i].weather_conditions,
                                         Str("normal"))).val

(***************************************************************************)
(* SpecUi: the Calculate button of the InterfaceManager                    *)
(* (ui/interface_manager.py).  The main thread runs the Tk event loop; an  *)
(* event is a click on the button or a callback scheduled with             *)
(* root.after(0, ...).  _calculate_routes calls root.update(), which runs  *)
(* the event loop inside the handler until no event is pending, so         *)
(* handlers nest: ui.stack holds the position of every _calculate_routes   *)
(* call in progress, the innermost last.  A click on a disabled button     *)
(* invokes nothing.  ui.workers counts the _run_route_calculation threads  *)
(* that have not yet finished.                                             *)
(***************************************************************************)
InitUi ==
    /\ api_clients = {}
    /\ cache = EmptyCache
    /\ now = 0
    /\ ticks = 0
    /\ lastPut = EmptyCache
    /\ got = NoGot
    /\ kreqs = <<>>
    /\ kkeys = <<>>
    /\ world = SilentWorld
    /\ call = NoCall
    /\ scoring = NoScoring
    /\ threads = <<>>
    /\ written = {}
    /\ estimate = NoEstimate
    /\ ui = [button |-> "normal", clicks |-> 0, made |-> 0, stack |-> <<>>, workers |-> 0,
             callbacks |-> <<>>]

\* where the main thread is: in mainloop(), or in the innermost handler
MainAt == IF ui.stack = <<>> THEN "mainloop" ELSE ui.stack[Len(ui.stack)]

\* the event loop can take an event: the main thread is in mainloop() or
\* in the root.update() of the innermost handler
Dispatching == MainAt \in {"mainloop", "update"}

\* the user clicks the Calculate button: the click is queued
Click ==
    /\ ui.made < MaxClicks
    /\ ui' = [ui EXCEPT !.clicks = ui.clicks + 1, !.made = ui.made + 1]
    /\ UNCHANGED <<api_clients, cache, now, ticks, lastPut, got, kreqs, kkeys, world, call,
                   scoring, threads, written, estimate>>

\* a queued click is taken: on the enabled button it invokes
\* _calculate_routes, which returns after an error box when a location is
\* invalid (lines 276-282) and otherwise runs up to root.update() (line 287)
HandleClick ==
    /\ Dispatching
    /\ ui.clicks > 0
    /\ \E valid \in BOOLEAN :
         ui' = [ui EXCEPT !.clicks = ui.clicks - 1,
                          !.stack = IF ui.button = "normal" /\ valid
                                    THEN Append(ui.stack, "update") ELSE ui.stack]
    /\ UNCHANGED <<api_clients, cache, now, ticks, lastPut, got, kreqs, kkeys, world, call,
                   scoring, threads, written, estimate>>

\* a scheduled callback is taken: _update_routes_ui and _reset_ui enable
\* the button (lines 371, 375, 381), the error box leaves it as it is
RunCallback ==
    /\ Dispatching
    /\ ui.callbacks # <<>>
    /\ ui' = [ui EXCEPT !.callbacks = Tail(ui.callbacks),
                        !.button = IF Head(ui.callbacks) \in {"_update_routes_ui", "_reset_ui"}
                                   THEN "normal" ELSE ui.button]
    /\ UNCHANGED <<api_clients, cache, now, ticks, lastPut, got, kreqs, kkeys, world, call,
                   scoring, threads, written, estimate>>

\* root.update() returns when no event is pending
UpdateReturns ==
    /\ MainAt = "update"
    /\ ui.clicks = 0
    /\ ui.callbacks = <<>>
    /\ ui' = [ui EXCEPT !.stack = SubSeq(ui.stack, 1, Len(ui.stack) - 1) \o <<"disable">>]
    /\ UNCHANGED <<api_clients, cache, now, ticks, lastPut, got, kreqs, kkeys, world, call,
                   scoring, threads, written, estimate>>

\* the button is disabled and the thread started (lines 290-294); the
\* handler returns
StartCalculation ==
    /\ MainAt = "disable"
    /\ ui' = [ui EXCEPT !.button = "disabled",
                        !.workers = ui.workers + 1,
                        !.stack = SubSeq(ui.stack, 1, Len(ui.stack) - 1)]
    /\ UNCHANGED <<api_clients, cache, now, ticks, lastPut, got, kreqs, kkeys, world, call,
                   scoring, threads, written, estimate>>

\* a _run_route_calculation thread ends with a success result, an error
\* result or an exception, and schedules its callbacks (lines 321-336)
WorkerFinishes ==
    /\ ui.workers > 0
    /\ \E outcome \in {"success", "error", "exception"} :
         ui' = [ui EXCEPT !.workers = ui.workers - 1,
                          !.callbacks = ui.callbacks \o
                              (IF outcome = "success" THEN <<"_update_routes_ui">>
                               ELSE <<"showerror", "_reset_ui">>)]
    /\ UNCHANGED <<api_clients, cache, now, ticks, lastPut, got, kreqs, kkeys, world, call,
                   scoring, threads, written, estimate>>

NextUi ==
    \/ Click
    \/ HandleClick
    \/ RunCallback
    \/ UpdateReturns
    \/ StartCalculation
    \/ WorkerFinishes

\* the main thread keeps running, and a started thread finishes
SpecUi ==
    /\ InitUi
    /\ [][NextUi]_vars
    /\ WF_vars(HandleClick \/ RunCallback \/ UpdateReturns \/ StartCalculation)
    /\ WF_vars(WorkerFinishes)

\* C29: at most one _run_route_calculation thread runs at any time, and
\* once a thread has ended and scheduled its callbacks the button is
\* eventually enabled.
C29_OneCalculation ==
    /\ [](ui.workers <= 1)
    /\ (ui.callbacks # <<>>) ~> (ui.button = "normal")

(***************************************************************************)
(* SpecThreads: several optimize_route calls running concurrently on one   *)
(* RouteOptimizer.  A call is a sequence of steps on the shared dictionary *)
(* self.cache; each dictionary operation ("key in d", "d[key]",            *)
(* "d[key] = v") is one atomic step, as the interpreter executes it, and   *)
(* the steps of different calls interleave freely.  The code takes no lock *)
(* and never deletes a key.  Each thread makes one call; the result a call *)
(* builds is kept as the name of its thread.                               *)
(***************************************************************************)
Threads == 1..MaxThreads

IdleThread ==
    [pc |-> "idle", key |-> <<>>, entry |-> None, data |-> None, ret |-> None]

\* self.cache[key] = entry, with the other keys dropped
StoreEntry_Clobber(c, key, entry) == [k \in {key} |-> entry]

\* self.cache[key] = entry
StoreEntry(c, key, entry) ==
    [k \in (DOMAIN c) \cup {key} |-> IF k = key THEN entry ELSE c[k]]

InitThreads ==
    /\ api_clients = {}
    /\ cache = EmptyCache
    /\ now = 0
    /\ ticks = 0
    /\ lastPut = EmptyCache
    /\ got = NoGot
    /\ kreqs = <<>>
    /\ kkeys = <<>>
    /\ world = SilentWorld
    /\ call = NoCall
    /\ scoring = NoScoring
    /\ threads = [t \in Threads |-> IdleThread]
    /\ written = {}
    /\ estimate = NoEstimate
    /\ ui = NoUi

\* optimize_route is entered: cache_key is computed (line 134)
Enter(t, key) ==
    /\ threads[t].pc = "idle"
    /\ threads' = [threads EXCEPT ![t].pc = "contains", ![t].key = key]
    /\ UNCHANGED <<api_clients, cache, now, ticks, lastPut, got, kreqs, kkeys, world, call,
                   scoring, written, estimate, ui>>

\* _get_from_cache: "if key in self.cache" (line 268)
Contains(t) ==
    /\ threads[t].pc = "contains"
    /\ threads' = [threads EXCEPT ![t].pc =
                     IF threads[t].key \in DOMAIN cache THEN "load" ELSE "compute"]
    /\ UNCHANGED <<api_clients, cache, now, ticks, lastPut, got, kreqs, kkeys, world, call,
                   scoring, written, estimate, ui>>

\* "entry = self.cache[key]" (line 269): KeyError when the key is gone
Load(t) ==
    /\ threads[t].pc = "load"
    /\ threads' = IF threads[t].key \in DOMAIN cache
                  THEN [threads EXCEPT ![t].pc = "expiry", ![t].entry = cache[threads[t].key]]
                  ELSE [threads EXCEPT ![t].pc = "keyerror"]
    /\ UNCHANGED <<api_clients, cache, now, ticks, lastPut, got, kreqs, kkeys, world, call,
                   scoring, written, estimate, ui>>

\* "if time.time() - entry["timestamp"] < self.cache_ttl: return entry["data"]"
\* (lines 270-271), and the return of the cached result (lines 136-138)
Expiry(t) ==
    /\ threads[t].pc = "expiry"
    /\ threads' = IF now - threads[t].entry.timestamp < cache_ttl
                  THEN [threads EXCEPT ![t].pc = "done", ![t].ret = threads[t].entry.data]
                  ELSE [threads EXCEPT ![t].pc = "compute"]
    /\ UNCHANGED <<api_clients, cache, now, ticks, lastPut, got, kreqs, kkeys, world, call,
                   scoring, written, estimate, ui>>

\* the result is built (lines 141-190)
Compute(t) ==
    /\ threads[t].pc = "compute"
    /\ threads' = [threads EXCEPT ![t].pc = "build", ![t].data = [by |-> t]]
    /\ UNCHANGED <<api_clients, cache, now, ticks, lastPut, got, kreqs, kkeys, world, call,
                   scoring, written, estimate, ui>>

\* _add_to_cache: the entry {"data": data, "timestamp": time.time()} is
\* built (lines 276-279) ...
Build(t) ==
    /\ threads[t].pc = "build"
    /\ threads' = [threads EXCEPT ![t].pc = "store",
                                  ![t].entry = [data |-> threads[t].data, timestamp |-> now]]
    /\ UNCHANGED <<api_clients, cache, now, ticks, lastPut, got, kreqs, kkeys, world, call,
                   scoring, written, estimate, ui>>

\* ... and stored under the key; the call returns its result (line 195)
Store(t) ==
    /\ threads[t].pc = "store"
    /\ cache' = StoreEntry(cache, threads[t].key, threads[t].entry)
    /\ lastPut' = RecordPut(lastPut, threads[t].key, threads[t].entry.data,
                            threads[t].entry.timestamp)
    /\ written' = written \cup {<<threads[t].key, threads[t].entry>>}
    /\ threads' = [threads EXCEPT ![t].pc = "done", ![t].ret = threads[t].data]
    /\ UNCHANGED <<api_clients, now, ticks, got, kreqs, kkeys, world, call, scoring,
                   estimate, ui>>

\* time.time() advancing between two steps of the calls
Elapse ==
    /\ ticks < MaxTicks
    /\ now' = now + cache_ttl - 1
    /\ ticks' = ticks + 1
    /\ UNCHANGED <<aux, api_clients, cache, lastPut, got, kreqs, kkeys, world, call>>

NextThreads ==
    \/ \E t \in Threads, key \in CacheKeys : Enter(t, key)
    \/ \E t \in Threads : Contains(t)
    \/ \E t \in Threads : Load(t)
    \/ \E t \in Threads : Expiry(t)
    \/ \E t \in Threads : Compute(t)
    \/ \E t \in Threads : Build(t)
    \/ \E t \in Threads : Store(t)
    \/ Elapse

SpecThreads == InitThreads /\ [][NextThreads]_vars

\* C16: under every interleaving of concurrent calls, an entry a call has
\* read from the cache is a complete (data, timestamp) entry that some call
\* stored under that same key, no read fails, and the cache holds for every
\* key ever written the entry stored last under it: a store for one key
\* loses or changes no entry of another key.
C16_SafeCache ==
    /\ \A t \in Threads :
         /\ threads[t].pc # "keyerror"
         /\ threads[t].pc = "expiry" =>
              /\ DOMAIN threads[t].entry = {"data", "timestamp"}
              /\ <<threads[t].key, threads[t].entry>> \in written
    /\ DOMAIN cache = {w[1] : w \in written}
    /\ \A k \in DOMAIN cache :
         /\ <<k, cache[k]>> \in written
         /\ cache[k] = lastPut[k]

\* a call holds an entry it read, stored by another call, while a third
\* call has stored an entry under a different key and returned, and both
\* keys are in the cache
C16_Witness ==
    \E t, u, v \in Threads :
        /\ t # u
        /\ threads[t].pc = "expiry"
        /\ threads[t].entry.data.by = u
        /\ threads[v].pc = "done"
        /\ threads[v].key # threads[t].key
        /\ threads[v].ret = threads[v].data
        /\ DOMAIN cache = CacheKeys

(***************************************************************************)
(* SpecScore: _score_routes applied to a candidate set and a priority.     *)
(* A candidate is a route as _calculate_emissions leaves it; its id is     *)
(* its position in the candidate set.                                      *)
(***************************************************************************)
\* durations in seconds: 0, two durations of the demo routes, and the
\* double of the first; emissions in hundredths of a kg: 0, and three values
\* 0.05 and 0.15 kg apart
CandidateSets ==
    SeqsUpTo({[duration |-> d, emissions |-> e] :
                 d \in {0, 1316, 1375, 2632}, e \in {0, 278, 283, 293}}, MaxCandidates)
        \ {<<>>}

\* the priorities, and a value that is none of them
Priorities == {<<"time">>, <<"emissions">>, Balanced, <<"cost">>}

ScoreInput(cs) ==
    [i \in 1..Len(cs) |->
        [id |-> <<"r", i>>,
         provider |-> "demo",
         distance_meters |-> Num(0),
         duration_seconds |-> Num(cs[i].duration),
         traffic_delay_seconds |-> Num(0),
         emissions_kg_co2 |-> cs[i].emissions]]

InitScore ==
    /\ api_clients = {}
    /\ cache = EmptyCache
    /\ now = 0
    /\ ticks = 0
    /\ lastPut = EmptyCache
    /\ got = NoGot
    /\ kreqs = <<>>
    /\ kkeys = <<>>
    /\ world = SilentWorld
    /\ call = NoCall
    /\ \E cs \in CandidateSets, criteria \in Priorities :
         scoring = [routes |-> ScoreInput(cs), criteria |-> criteria, out |-> None]
    /\ threads = <<>>
    /\ written = {}
    /\ estimate = NoEstimate
    /\ ui = NoUi

\* one _score_routes(routes, optimization_criteria) call
ScoreRoutes ==
    /\ scoring.out = None
    /\ \E slip \in SUBSET SlipPositions(scoring.routes, scoring.criteria) :
         scoring' = [scoring EXCEPT
                       !.out = Some(_score_routes(scoring.routes, scoring.criteria, slip))]
    /\ UNCHANGED <<api_clients, cache, now, ticks, lastPut, got, kreqs, kkeys, world, call,
                   threads, written, estimate, ui>>

NextScore == ScoreRoutes

SpecScore == InitScore /\ [][NextScore]_vars

Scored == scoring.out # None
ScoredRoutes == scoring.out.v.val

\* the position in the candidate set of a scored route
PositionOf(route) == route.id[2]

\* C17: _score_routes returns the routes it was given, each with a score,
\* sorted by score in descending order, and routes with equal scores are
\* in the order they had in the candidate set.
C17_SortedStable ==
    Scored =>
        /\ scoring.out.v.exc = ""
        /\ Len(ScoredRoutes) = Len(scoring.routes)
        /\ \A p \in 1..Len(scoring.routes) :
             \E i \in 1..Len(ScoredRoutes) :
               /\ ScoredRoutes[i].id = scoring.routes[p].id
               /\ ScoredRoutes[i].duration_seconds = scoring.routes[p].duration_seconds
               /\ ScoredRoutes[i].emissions_kg_co2 = scoring.routes[p].emissions_kg_co2
        /\ \A i, j \in 1..Len(ScoredRoutes) :
             i < j =>
               /\ ScoredRoutes[i].score >= ScoredRoutes[j].score
               /\ ScoredRoutes[i].score = ScoredRoutes[j].score =>
                    PositionOf(ScoredRoutes[i]) < PositionOf(ScoredRoutes[j])

\* three candidates: the last one scores highest and is returned first, the
\* first two tie and follow in their original order
C17_Witness ==
    /\ Scored
    /\ Len(ScoredRoutes) = 3
    /\ PositionOf(ScoredRoutes[1]) = 3
    /\ PositionOf(ScoredRoutes[2]) = 1
    /\ PositionOf(ScoredRoutes[3]) = 2
    /\ ScoredRoutes[1].score > ScoredRoutes[2].score
    /\ ScoredRoutes[2].score = ScoredRoutes[3].score
    /\ scoring.routes[1] # scoring.routes[2]

\* the exact value of 100 x (w_time x time_score + w_emissions x
\* emissions_score) of the candidate at position p, as a fraction
TimeRange ==
    LET d == [i \in 1..Len(scoring.routes) |-> scoring.routes[i].duration_seconds.n]
    IN  Max(1, SeqMax(d) - SeqMin(d))

EmissionsRange ==
    LET e == [i \in 1..Len(scoring.routes) |-> scoring.routes[i].emissions_kg_co2]
    IN  Max(10, SeqMax(e) - SeqMin(e))

WeightedNumerator(p) ==
    LET d == [i \in 1..Len(scoring.routes) |-> scoring.routes[i].duration_seconds.n]
        e == [i \in 1..Len(scoring.routes) |-> scoring.routes[i].emissions_kg_co2]
        wt == IF scoring.criteria = <<"time">> THEN 8
              ELSE IF scoring.criteria = <<"emissions">> THEN 2 ELSE 5
    IN  10 * ( wt * (TimeRange - (d[p] - SeqMin(d))) * EmissionsRange
             + (10 - wt) * (EmissionsRange - (e[p] - SeqMin(e))) * TimeRange )

WeightedDenominator == TimeRange * EmissionsRange

\* C18: the score of every route is 100 x (w_time x time_score + w_emissions
\* x emissions_score) rounded to the nearest integer, with the weights
\* (0.8, 0.2), (0.2, 0.8), (0.5, 0.5) and the range floors 1 s and 0.1 kg.
C18_RoundedScore ==
    Scored =>
        \A i \in 1..Len(ScoredRoutes) :
          ScoredRoutes[i].score
            = RoundHalfEven(WeightedNumerator(PositionOf(ScoredRoutes[i])), WeightedDenominator)

AllIdentical ==
    \A p \in 1..Len(scoring.routes) :
        /\ scoring.routes[p].duration_seconds = scoring.routes[1].duration_seconds
        /\ scoring.routes[p].emissions_kg_co2 = scoring.routes[1].emissions_kg_co2

\* C19: when all candidates (or the only one) have the same duration and
\* the same emissions, _score_routes returns normally and every score is
\* 100, under each priority.
C19_TiedScore100 ==
    (Scored /\ AllIdentical) =>
        /\ scoring.out.v.exc = ""
        /\ Len(ScoredRoutes) = Len(scoring.routes)
        /\ \A i \in 1..Len(ScoredRoutes) : ScoredRoutes[i].score = 100

\* three identical candidates scored 100 each under the priority time
C19_Witness ==
    /\ Scored
    /\ AllIdentical
    /\ Len(scoring.routes) = 3
    /\ scoring.criteria = <<"time">>
    /\ scoring.routes[1].duration_seconds.n > 0
    /\ \A i \in 1..3 : ScoredRoutes[i].score = 100

\* C20: every score is an integer from 0 to 100, for all non-negative
\* durations and emissions and every priority value.
C20_ScoreRange ==
    Scored =>
        \A i \in 1..Len(ScoredRoutes) :
          ScoredRoutes[i].score \in 0..100

\* the scores 100, 0 and one in between in the same result, for a priority
\* value that is none of time, emissions, balanced
C20_Witness ==
    /\ Scored
    /\ scoring.criteria = <<"cost">>
    /\ \E i, j, h \in 1..Len(ScoredRoutes) :
         /\ ScoredRoutes[i].score = 100
         /\ ScoredRoutes[j].score = 0
         /\ ScoredRoutes[h].score \in 1..99

\* C21: the recommendation of every scored route is fixed by its score:
\* "Highly Recommended" from 80 up, "Recommended" from 60 to 79,
\* "Alternative Option" below 60.
C21_Tiers ==
    Scored =>
        \A i \in 1..Len(ScoredRoutes) :
          /\ ScoredRoutes[i].score >= 80
                => ScoredRoutes[i].recommendation = "Highly Recommended"
          /\ (ScoredRoutes[i].score >= 60 /\ ScoredRoutes[i].score < 80)
                => ScoredRoutes[i].recommendation = "Recommended"
          /\ ScoredRoutes[i].score < 60
                => ScoredRoutes[i].recommendation = "Alternative Option"

\* one result with the scores 80, 60 and 59, labelled "Highly Recommended",
\* "Recommended" and "Alternative Option"
C21_Witness ==
    /\ Scored
    /\ \E i, j, h \in 1..Len(ScoredRoutes) :
         /\ ScoredRoutes[i].score = 80
         /\ ScoredRoutes[i].recommendation = "Highly Recommended"
         /\ ScoredRoutes[j].score = 60
         /\ ScoredRoutes[j].recommendation = "Recommended"
         /\ ScoredRoutes[h].score = 59
         /\ ScoredRoutes[h].recommendation = "Alternative Option"

====
